---- MODULE Spec2Model ----
(***************************************************************************)
(* Batching layer of the equity-instrument pricing platform:               *)
(*   american_option/proto_utils.py  _hasher, _get_hash, group_protos,     *)
(*                                   from_protos                           *)
(*   equity_instruments/utils.py     process_equities, get_vol_surface     *)
(*                                                                         *)
(* One behaviour is one pricing request: the request's option protos are   *)
(* batched by from_protos and grouped by group_protos (one loop iteration  *)
(* per step), then the request's equity names go through process_equities  *)
(* and the resulting unique names, with a caller-supplied mask, through    *)
(* get_vol_surface.                                                        *)
(*                                                                         *)
(* Python lists are sequences (position p of Python is position p+1 here); *)
(* the integers stored in masks keep Python's 0-based values.  Python      *)
(* dicts are functions whose DOMAIN is the key set.  An optional value is  *)
(* a sequence of length 0 or 1.                                            *)
(***************************************************************************)
EXTENDS Integers, Sequences, FiniteSets, TLC

\* ------------------------------------------------------------------ bounds
\* Longest proto list of a request.
MaxProtos == 3
\* Longest equity-name list of a request (and longest mask).
MaxEquities == 3

\* ------------------------------------------------------- proto field values
\* Enum numbers carried by the protos (bank_holidays, business_day_convention,
\* currency).
BankHolidaysValues == {1, 2}
ConventionValues == {1, 2}
EquityNames == {"GOOG", "MSFT", "AAPL"}
Configs == {"None", "config_a"}

\* The fields of a proto the grouping key does not read, in two variants that
\* differ in every field, the currency included.
OtherFields(v) ==
  IF v = 1
  THEN [currency |-> 1,
        short_position |-> TRUE,
        expiry_date |-> [year |-> 2022, month |-> 5, day |-> 21],
        equity |-> "GOOG",
        contract_amount |-> [units |-> 2, nanos |-> 0],
        strike |-> [units |-> 1, nanos |-> 500000000],
        is_call_option |-> TRUE,
        settlement_days |-> 2,
        instrument_type |-> "AMERICAN_OPTION"]
  ELSE [currency |-> 2,
        short_position |-> FALSE,
        expiry_date |-> [year |-> 2023, month |-> 11, day |-> 3],
        equity |-> "MSFT",
        contract_amount |-> [units |-> 0, nanos |-> 750000000],
        strike |-> [units |-> 1, nanos |-> 250000000],
        is_call_option |-> FALSE,
        settlement_days |-> 0,
        instrument_type |-> "AMERICAN_PUT"]

ProtoKinds ==
  [bank_holidays : BankHolidaysValues,
   business_day_convention : ConventionValues,
   variant : {1, 2}]

\* An AmericanEquityOption message. metadata.id is the record's position in the
\* request, so every record of a request carries a marker of its own.
AmericanEquityOption(k, id) ==
  LET n == OtherFields(k.variant) IN
  [short_position |-> n.short_position,
   currency |-> n.currency,
   bank_holidays |-> k.bank_holidays,
   business_day_convention |-> k.business_day_convention,
   expiry_date |-> n.expiry_date,
   equity |-> n.equity,
   contract_amount |-> n.contract_amount,
   strike |-> n.strike,
   settlement_days |-> n.settlement_days,
   is_call_option |-> n.is_call_option,
   metadata |-> [id |-> id, instrument_type |-> n.instrument_type]]

ProtoLists ==
  UNION { { [p \in 1..n |-> AmericanEquityOption(f[p], p)] : f \in [1..n -> ProtoKinds] }
          : n \in 0..MaxProtos }

\* ------------------------------------------------ collaborators of the grouper
\* currencies.from_proto_value: the currency object of an enum number.
currency_from_proto_value(v) == IF v = 1 THEN "USD" ELSE "EUR"

\* business_days.convention_from_proto_value
convention_from_proto_value(v) == IF v = 1 THEN "FOLLOWING" ELSE "MODIFIED_FOLLOWING"

\* business_days.holiday_from_proto_value
holiday_from_proto_value(v) == IF v = 1 THEN "NYC" ELSE "LON"

\* instrument_utils.decimal_to_double: units + nanos / 1e9. The double is written
\* in units of 1e-9, TLC having no reals (and the amounts of OtherFields stay
\* below 2.147 so that the product fits TLC's integers).
decimal_to_double(d) == d.units * 1000000000 + d.nanos

\* ------------------------------------------------------------ the fingerprint
\* json.dumps of a tuple of ints: a JSON array, ", " between the items.
RECURSIVE JsonItems(_)
JsonItems(t) ==
  IF Len(t) = 0 THEN ""
  ELSE IF Len(t) = 1 THEN ToString(t[1])
  ELSE ToString(t[1]) \o ", " \o JsonItems(Tail(t))

json_dumps(t) == "[" \o JsonItems(t) \o "]"

\* hashlib.md5(s.encode()).hexdigest(), tabulated for the strings json_dumps
\* yields on tuples of at most three enum numbers in {1, 2}.
md5_hexdigest(s) ==
  CASE s = "[1, 1]" -> "e5df5f64140fd73d57e8050ae12d0ec1"
    [] s = "[1, 2]" -> "04cd0e0151f352e7fd414d694a604136"
    [] s = "[2, 1]" -> "6b8567cadaab3578a5bd1257da7db3b4"
    [] s = "[2, 2]" -> "6fef831bd519c88060bc6a91af46b2fe"
    [] s = "[1]" -> "35dba5d75538a9bbe0b4da4422759a0e"
    [] s = "[2]" -> "beb4dbf9af069aa2df7b147229965085"
    [] s = "[1, 1, 1]" -> "b981991acb0a15e08b7ec0cd1af604da"
    [] s = "[1, 1, 2]" -> "913f504919e5dafc3bfe53e307a210bc"
    [] s = "[1, 2, 1]" -> "e839b3754b768c48676ccf27a39aef48"
    [] s = "[1, 2, 2]" -> "dda8f8d0baa22d2f39395bd1716abf12"
    [] s = "[2, 1, 1]" -> "ea28c71545037326d044c3ff479615f2"
    [] s = "[2, 1, 2]" -> "a30118ee71c975f7bfbe61803241126e"
    [] s = "[2, 2, 1]" -> "bf29aaa37890ef3edf69d9f718c73d92"
    [] s = "[2, 2, 2]" -> "9f978abd77bcc57c65e0caf67807f1ca"

\* _hasher(obj): md5 of the JSON text of obj.
hasher(obj) == md5_hexdigest(json_dumps(obj))

\* A fingerprint that also reads the currency.
get_hash_with_currency(american_option_proto) ==
  [h |-> hasher(<<american_option_proto.bank_holidays,
                  american_option_proto.business_day_convention,
                  american_option_proto.currency>>),
   currency |-> currency_from_proto_value(american_option_proto.currency)]

\* A fingerprint that reads the calendar alone.
get_hash_calendar_only(american_option_proto) ==
  [h |-> hasher(<<american_option_proto.bank_holidays>>),
   currency |-> currency_from_proto_value(american_option_proto.currency)]

\* _get_hash(american_option_proto): (h, currency).
get_hash(american_option_proto) ==
  LET currency == currency_from_proto_value(american_option_proto.currency)
      bank_holidays == american_option_proto.bank_holidays
      business_day_convention == american_option_proto.business_day_convention
      h == hasher(<<bank_holidays>> \o <<business_day_convention>>)
  IN [h |-> h, currency |-> currency]

\* --------------------------------------------------------------- dict helpers
\* d with d[k] = v set (a new key, or an existing one overwritten).
DictSet(d, k, v) == [x \in DOMAIN d \cup {k} |-> IF x = k THEN v ELSE d[x]]

\* A dict created with a placeholder bucket in it.
SeededDict == [x \in {""} |-> <<>>]

\* {}: the dict both functions start from.
EmptyDict == [x \in {} |-> 0]

\* ---------------------------------------------------------------- group_protos
\* group_protos whose else branch replaces the list instead of starting it only
\* for a new key: the list of an existing key is started again.
group_protos_body_restart(grouped_options, american_option) ==
  DictSet(grouped_options, get_hash(american_option).h, <<american_option>>)

\* One iteration of the loop of group_protos.
group_protos_body(grouped_options, american_option) ==
  LET h == get_hash(american_option).h IN
  IF h \in DOMAIN grouped_options
  THEN DictSet(grouped_options, h, Append(grouped_options[h], american_option))
  ELSE DictSet(grouped_options, h, <<american_option>>)

\* ----------------------------------------------------------------- from_protos
\* The values from_protos reads off one proto before it touches the dict.
ProtoValues(am_option_proto) ==
  LET hc == get_hash(am_option_proto) IN
  [short_position |-> am_option_proto.short_position,
   h |-> hc.h,
   currency |-> hc.currency,
   expiry_date |-> <<am_option_proto.expiry_date.year,
                     am_option_proto.expiry_date.month,
                     am_option_proto.expiry_date.day>>,
   equity |-> am_option_proto.equity,
   contract_amount |-> decimal_to_double(am_option_proto.contract_amount),
   business_day_convention |->
     convention_from_proto_value(am_option_proto.business_day_convention),
   strike |-> decimal_to_double(am_option_proto.strike),
   calendar |-> holiday_from_proto_value(am_option_proto.bank_holidays),
   settlement_days |-> am_option_proto.settlement_days,
   is_call_option |-> am_option_proto.is_call_option,
   name |-> am_option_proto.metadata.id,
   instrument_type |-> am_option_proto.metadata.instrument_type]

\* The dict entry of a key seen for the first time.
NewGroup(v, american_option_config) ==
  [short_position |-> <<v.short_position>>,
   currency |-> v.currency,
   expiry_date |-> <<v.expiry_date>>,
   equity |-> <<v.equity>>,
   contract_amount |-> <<v.contract_amount>>,
   business_day_convention |-> v.business_day_convention,
   calendar |-> v.calendar,
   strike |-> <<v.strike>>,
   is_call_option |-> <<v.is_call_option>>,
   settlement_days |-> <<v.settlement_days>>,
   american_option_config |-> american_option_config,
   batch_names |-> << <<v.name, v.instrument_type>> >>]

\* The appends of the else branch.
AppendToGroup(g, v) ==
  [g EXCEPT !.short_position = Append(@, v.short_position),
            !.expiry_date = Append(@, v.expiry_date),
            !.equity = Append(@, v.equity),
            !.contract_amount = Append(@, v.contract_amount),
            !.strike = Append(@, v.strike),
            !.is_call_option = Append(@, v.is_call_option),
            !.settlement_days = Append(@, v.settlement_days),
            !.batch_names = Append(@, <<v.name, v.instrument_type>>)]

\* from_protos whose else branch forgets the append to "strike".
from_protos_body_no_strike(prepare_fras, am_option_proto, american_option_config) ==
  LET v == ProtoValues(am_option_proto) IN
  IF v.h \notin DOMAIN prepare_fras
  THEN DictSet(prepare_fras, v.h, NewGroup(v, american_option_config))
  ELSE DictSet(prepare_fras, v.h,
               [AppendToGroup(prepare_fras[v.h], v) EXCEPT
                  !.strike = prepare_fras[v.h].strike])

\* from_protos whose else branch inserts at the front of every list.
from_protos_body_prepend(prepare_fras, am_option_proto, american_option_config) ==
  LET v == ProtoValues(am_option_proto)
      g == prepare_fras[v.h]
  IN
  IF v.h \notin DOMAIN prepare_fras
  THEN DictSet(prepare_fras, v.h, NewGroup(v, american_option_config))
  ELSE DictSet(prepare_fras, v.h,
               [g EXCEPT !.short_position = <<v.short_position>> \o @,
                         !.expiry_date = <<v.expiry_date>> \o @,
                         !.equity = <<v.equity>> \o @,
                         !.contract_amount = <<v.contract_amount>> \o @,
                         !.strike = <<v.strike>> \o @,
                         !.is_call_option = <<v.is_call_option>> \o @,
                         !.settlement_days = <<v.settlement_days>> \o @,
                         !.batch_names = << <<v.name, v.instrument_type>> >> \o @])

\* One iteration of the loop of from_protos.
from_protos_body(prepare_fras, am_option_proto, american_option_config) ==
  LET v == ProtoValues(am_option_proto) IN
  IF v.h \notin DOMAIN prepare_fras
  THEN DictSet(prepare_fras, v.h, NewGroup(v, american_option_config))
  ELSE DictSet(prepare_fras, v.h, AppendToGroup(prepare_fras[v.h], v))

\* ------------------------------------------------------------ process_equities
\* Python's hash() of the equity names: a per-process salted value, so any
\* assignment of distinct integers to the names can occur.
HashValues == {-7, 3, 11}

PyHashes == { f \in [EquityNames -> HashValues] : \A a, b \in EquityNames : f[a] = f[b] => a = b }

EquityLists == UNION { [1..n -> EquityNames] : n \in 0..MaxEquities }

SeqRange(s) == { s[p] : p \in 1..Len(s) }

\* cashflow_streams.to_list: a list is returned as it is.
to_list(x) == x

\* numpy.unique: the distinct values in ascending order.
np_unique(x) ==
  LET S == SeqRange(x) IN
  CHOOSE u \in [1..Cardinality(S) -> S] :
    \A p, q \in 1..Cardinality(S) : p < q => u[p] < u[q]

\* cashflow_streams.create_mask(x): (mask, mask_map, num_unique_elems), the mask
\* being each element's position in numpy.unique(x).
create_mask(x) ==
  LET unique == np_unique(x)
      num_unique_elems == Len(unique)
      d == [el \in SeqRange(x) |-> (CHOOSE k \in 0..(num_unique_elems - 1) : unique[k + 1] = el)]
      mask_map == [k \in 0..(num_unique_elems - 1) |-> unique[k + 1]]
  IN [mask |-> [p \in 1..Len(x) |-> d[x[p]]],
      mask_map |-> mask_map,
      num_unique_elems |-> num_unique_elems]

\* The position (0-based) of the first occurrence of el in x.
FirstIndex(x, el) == (CHOOSE p \in 1..Len(x) : x[p] = el /\ \A q \in 1..(p - 1) : x[q] # el) - 1

\* The elements of x, every later repeat removed.
RECURSIVE FirstOccurrences(_)
FirstOccurrences(x) ==
  IF Len(x) = 0 THEN <<>>
  ELSE LET front == FirstOccurrences(SubSeq(x, 1, Len(x) - 1))
           last == x[Len(x)]
       IN IF last \in SeqRange(front) THEN front ELSE Append(front, last)

\* process_equities that lists the names by first occurrence, the mask following.
process_equities_first_occurrence(equities, hash) ==
  LET equity_list == to_list(equities)
      equity_types == FirstOccurrences(equity_list)
  IN [equity_hash |-> [p \in 1..Len(equity_list) |-> hash[equity_list[p]]],
      equity_types |-> equity_types,
      mask |-> [p \in 1..Len(equity_list) |-> FirstIndex(equity_types, equity_list[p])]]

\* process_equities that lists the names through mask_map but returns the
\* first-occurrence positions as the mask.
process_equities_stale_mask(equities, hash) ==
  LET equity_list == to_list(equities)
      equity_hash == [p \in 1..Len(equity_list) |-> hash[equity_list[p]]]
      hash_equities == [hv \in SeqRange(equity_hash) |->
                          equity_list[CHOOSE p \in 1..Len(equity_list) :
                             equity_hash[p] = hv /\ \A q \in (p + 1)..Len(equity_list) : equity_hash[q] # hv]]
      cm == create_mask(equity_hash)
  IN [equity_hash |-> equity_hash,
      equity_types |-> [k \in 1..cm.num_unique_elems |-> hash_equities[cm.mask_map[k - 1]]],
      mask |-> [p \in 1..Len(equity_list) |-> FirstIndex(FirstOccurrences(equity_list), equity_list[p])]]

\* process_equities(equities) under the hash function of the running process:
\* (equity_types, mask), with the local equity_hash kept beside them.
process_equities(equities, hash) ==
  LET equity_list == to_list(equities)
      equity_hash == [p \in 1..Len(equity_list) |-> hash[equity_list[p]]]
      \* the dict comprehension keeps, per hash value, the last name carrying it
      hash_equities == [hv \in SeqRange(equity_hash) |->
                          equity_list[CHOOSE p \in 1..Len(equity_list) :
                             equity_hash[p] = hv /\ \A q \in (p + 1)..Len(equity_list) : equity_hash[q] # hv]]
      cm == create_mask(equity_hash)
      equity_types == [k \in 1..cm.num_unique_elems |-> hash_equities[cm.mask_map[k - 1]]]
  IN [equity_hash |-> equity_hash, equity_types |-> equity_types, mask |-> cm.mask]

\* ------------------------------------------------------------- get_vol_surface
\* The node data the market holds per equity: one row of expiry ordinals, one of
\* strikes and one of volatilities (strikes and volatilities in units of 1e-4).
NodeData(key) ==
  CASE key = "GOOG" -> [expiries |-> <<738000, 738365>>,
                        strikes |-> <<15000000, 16000000>>,
                        volatilities |-> <<2500, 2700>>]
    [] key = "MSFT" -> [expiries |-> <<738100, 738465>>,
                        strikes |-> <<2100000, 2300000>>,
                        volatilities |-> <<1800, 1900>>]
    [] key = "AAPL" -> [expiries |-> <<738200, 738565>>,
                        strikes |-> <<1300000, 1400000>>,
                        volatilities |-> <<3100, 3300>>]

\* A processed market-data object: its valuation date, the day-count convention
\* of its surfaces, and the equities it holds a volatility surface for.
MarketSnapshots ==
  { [date |-> "2021-02-05", daycount_convention |-> "ACTUAL_365"],
    [date |-> "2021-06-30", daycount_convention |-> "ACTUAL_360"] }

Markets ==
  { [date |-> s.date, surfaces |-> held, daycount_convention |-> s.daycount_convention]
      : s \in MarketSnapshots, held \in SUBSET EquityNames }

DefaultMarket ==
  [date |-> "2021-02-05", surfaces |-> EquityNames, daycount_convention |-> "ACTUAL_365"]

\* A DateTensor is held by its ordinals: ordinal() reads them and
\* dateslib.dates_from_ordinals builds a DateTensor of them.
DateTensor(ordinals) == [ordinals |-> ordinals]

ordinal(date_tensor) == date_tensor.ordinals

dates_from_ordinals(ordinals) == DateTensor(ordinals)

\* market.volatility_surface(equity_types): the node arrays, one row per
\* requested equity in the order requested, or the provider's error for the
\* first requested equity it holds no surface for.
volatility_surface(market, equity_types) ==
  LET missing == { p \in 1..Len(equity_types) : equity_types[p] \notin market.surfaces } IN
  IF missing # {}
  THEN [raised |-> TRUE,
        exc |-> [type |-> "MissingReferenceData",
                 key |-> equity_types[CHOOSE p \in missing : \A q \in missing : p <= q]],
        node_expiries |-> DateTensor(<<>>),
        node_strikes |-> <<>>,
        node_volatilities |-> <<>>,
        daycount_convention |-> ""]
  ELSE [raised |-> FALSE,
        exc |-> [type |-> "", key |-> ""],
        node_expiries |-> DateTensor([p \in 1..Len(equity_types) |-> NodeData(equity_types[p]).expiries]),
        node_strikes |-> [p \in 1..Len(equity_types) |-> NodeData(equity_types[p]).strikes],
        node_volatilities |-> [p \in 1..Len(equity_types) |-> NodeData(equity_types[p]).volatilities],
        daycount_convention |-> market.daycount_convention]

\* tf.gather(params, indices) along the first axis, for indices within range.
tf_gather(params, indices) == [p \in 1..Len(indices) |-> params[indices[p] + 1]]

\* The masks a caller may pass for n instruments over k surfaces.
ValidMasks(n, k) == [1..n -> 0..(k - 1)]

\* The VolatilitySurface object: its constructor arguments.
VolatilitySurface(valuation_date, expiries, strikes, volatilities, daycount_convention) ==
  [valuation_date |-> valuation_date,
   expiries |-> expiries,
   strikes |-> strikes,
   volatilities |-> volatilities,
   daycount_convention |-> daycount_convention]

\* The result of a call: the value returned (ret) or the exception that left it
\* (exc), and how many times it queried the provider.
Returned(v, calls) == [ret |-> <<v>>, exc |-> <<>>, provider_calls |-> calls]

Raised(e, calls) == [ret |-> <<>>, exc |-> <<e>>, provider_calls |-> calls]

NotCalled == [ret |-> <<>>, exc |-> <<>>, provider_calls |-> 0]

\* The names of equity_types the market holds a surface for, in order.
Held(market, equity_types) == SelectSeq(equity_types, LAMBDA e : e \in market.surfaces)

\* get_vol_surface that gathers the volatilities with the identity instead of the
\* mask: row p is the provider's row p (rows past the provider's are its last).
get_vol_surface_ungathered_vols(equity_types, market, mask) ==
  LET vols == volatility_surface(market, equity_types)
      n == Len(equity_types)
  IN
  IF vols.raised THEN Raised(vols.exc, 1)
  ELSE Returned(VolatilitySurface(
         market.date,
         dates_from_ordinals(tf_gather(ordinal(vols.node_expiries), mask)),
         tf_gather(vols.node_strikes, mask),
         [p \in 1..Len(mask) |-> vols.node_volatilities[IF p <= n THEN p ELSE n]],
         vols.daycount_convention), 1)

\* get_vol_surface that catches the provider's error and gathers what the market
\* does hold (a mask entry whose row is not held reads row 0).
get_vol_surface_skip_missing(equity_types, market, mask) ==
  LET vols == volatility_surface(market, equity_types)
      held == Held(market, equity_types)
      again == volatility_surface(market, held)
      m == [p \in 1..Len(mask) |-> IF mask[p] < Len(held) THEN mask[p] ELSE 0]
  IN
  IF ~vols.raised
  THEN Returned(VolatilitySurface(
         market.date,
         dates_from_ordinals(tf_gather(ordinal(vols.node_expiries), mask)),
         tf_gather(vols.node_strikes, mask),
         tf_gather(vols.node_volatilities, mask),
         vols.daycount_convention), 1)
  ELSE IF Len(held) = 0 THEN Raised(vols.exc, 2)
  ELSE Returned(VolatilitySurface(
         market.date,
         dates_from_ordinals(tf_gather(ordinal(again.node_expiries), m)),
         tf_gather(again.node_strikes, m),
         tf_gather(again.node_volatilities, m),
         again.daycount_convention), 2)

\* get_vol_surface(equity_types, market, mask).
get_vol_surface(equity_types, market, mask) ==
  LET vols == volatility_surface(market, equity_types) IN
  IF vols.raised
  THEN Raised(vols.exc, 1)
  ELSE LET expiries == ordinal(vols.node_expiries)
           strikes == vols.node_strikes
           volatilities == vols.node_volatilities
           prepare_strikes == tf_gather(strikes, mask)
           prepare_vols == tf_gather(volatilities, mask)
           prepare_expiries == dates_from_ordinals(tf_gather(expiries, mask))
       IN Returned(VolatilitySurface(market.date,
                                     prepare_expiries,
                                     prepare_strikes,
                                     prepare_vols,
                                     vols.daycount_convention), 1)

\* ================================================================ the request
VARIABLES
  proto_list,              \* the request's protos
  american_option_config,  \* the request's configuration object
  equities,                \* the request's equity names
  market_data,             \* the request's processed market data
  pc,                      \* the call the request is in
  idx,                     \* protos consumed by the running for loop
  prepare_fras,            \* from_protos: its dict
  grouped_options,         \* group_protos: its dict
  equity_hash,             \* process_equities: its local equity_hash
  equity_types,            \* process_equities: first returned value
  equity_mask,             \* process_equities: second returned value
  surface_mask,            \* get_vol_surface: its mask argument
  vol_surface              \* get_vol_surface: its outcome

vars == <<proto_list, american_option_config, equities, market_data, pc, idx,
          prepare_fras, grouped_options, equity_hash, equity_types, equity_mask,
          surface_mask, vol_surface>>

\* A request carries protos or equity names (or neither).
Init ==
  /\ \/ /\ proto_list \in ProtoLists
        /\ equities = <<>>
        /\ market_data = DefaultMarket
        /\ american_option_config \in Configs
     \/ /\ proto_list = <<>>
        /\ equities \in EquityLists
        /\ market_data \in Markets
        /\ american_option_config = "None"
  /\ pc = "from_protos"
  /\ idx = 0
  /\ prepare_fras = EmptyDict
  /\ grouped_options = EmptyDict
  /\ equity_hash = <<>>
  /\ equity_types = <<>>
  /\ equity_mask = <<>>
  /\ surface_mask = <<>>
  /\ vol_surface = NotCalled

\* from_protos: one iteration of `for am_option_proto in proto_list`.
FromProtosLoop ==
  /\ pc = "from_protos"
  /\ idx < Len(proto_list)
  /\ prepare_fras' = from_protos_body(prepare_fras, proto_list[idx + 1], american_option_config)
  /\ idx' = idx + 1
  /\ UNCHANGED <<proto_list, american_option_config, equities, market_data, pc,
                 grouped_options, equity_hash, equity_types, equity_mask,
                 surface_mask, vol_surface>>

\* from_protos: the list is exhausted, `return prepare_fras`; group_protos starts.
FromProtosReturn ==
  /\ pc = "from_protos"
  /\ idx = Len(proto_list)
  /\ pc' = "group_protos"
  /\ idx' = 0
  /\ UNCHANGED <<proto_list, american_option_config, equities, market_data,
                 prepare_fras, grouped_options, equity_hash, equity_types,
                 equity_mask, surface_mask, vol_surface>>

\* group_protos: one iteration of `for american_option in proto_list`.
GroupProtosLoop ==
  /\ pc = "group_protos"
  /\ idx < Len(proto_list)
  /\ grouped_options' = group_protos_body(grouped_options, proto_list[idx + 1])
  /\ idx' = idx + 1
  /\ UNCHANGED <<proto_list, american_option_config, equities, market_data, pc,
                 prepare_fras, equity_hash, equity_types, equity_mask,
                 surface_mask, vol_surface>>

\* group_protos: `return grouped_options`; process_equities is next.
GroupProtosReturn ==
  /\ pc = "group_protos"
  /\ idx = Len(proto_list)
  /\ pc' = "process_equities"
  /\ UNCHANGED <<proto_list, american_option_config, equities, market_data, idx,
                 prepare_fras, grouped_options, equity_hash, equity_types,
                 equity_mask, surface_mask, vol_surface>>

\* process_equities(equities), under whichever hash function the process has.
ProcessEquities ==
  /\ pc = "process_equities"
  /\ \E hash \in PyHashes :
       LET r == process_equities(equities, hash) IN
       /\ equity_hash' = r.equity_hash
       /\ equity_types' = r.equity_types
       /\ equity_mask' = r.mask
  /\ pc' = "get_vol_surface"
  /\ UNCHANGED <<proto_list, american_option_config, equities, market_data, idx,
                 prepare_fras, grouped_options, surface_mask, vol_surface>>

\* get_vol_surface(equity_types, market, mask) with a mask of the caller's: one
\* entry per instrument, each an index into equity_types.
GetVolSurface ==
  /\ pc = "get_vol_surface"
  /\ \E mask \in ValidMasks(Len(equities), Len(equity_types)) :
       /\ surface_mask' = mask
       /\ vol_surface' = get_vol_surface(equity_types, market_data, mask)
  /\ pc' = "done"
  /\ UNCHANGED <<proto_list, american_option_config, equities, market_data, idx,
                 prepare_fras, grouped_options, equity_hash, equity_types,
                 equity_mask>>

Next ==
  \/ FromProtosLoop
  \/ FromProtosReturn
  \/ GroupProtosLoop
  \/ GroupProtosReturn
  \/ ProcessEquities
  \/ GetVolSurface

Spec == Init /\ [][Next]_vars

\* ==================================================================== claims
\* Protos consumed so far by from_protos and by group_protos.
FromProtosCount == IF pc = "from_protos" THEN idx ELSE Len(proto_list)

GroupProtosCount ==
  IF pc = "from_protos" THEN 0 ELSE IF pc = "group_protos" THEN idx ELSE Len(proto_list)

FromProtosReturned == pc # "from_protos"

GroupProtosReturned == pc \notin {"from_protos", "group_protos"}

ProcessEquitiesReturned == pc \in {"get_vol_surface", "done"}

\* The positions, ascending, of the first n protos whose fingerprint is h.
PositionsOf(h, n) ==
  SelectSeq([p \in 1..n |-> p], LAMBDA p : get_hash(proto_list[p]).h = h)

\* The position in the request of the record behind entry e of group g.
SourceOf(g, e) == g.batch_names[e][1]

\* Entry e of every per-record array of group g holds what from_protos reads off
\* proto src.
EntryIsFrom(g, e, src) ==
  /\ g.short_position[e] = src.short_position
  /\ g.expiry_date[e] = <<src.expiry_date.year, src.expiry_date.month, src.expiry_date.day>>
  /\ g.equity[e] = src.equity
  /\ g.contract_amount[e] = src.contract_amount.units * 1000000000 + src.contract_amount.nanos
  /\ g.strike[e] = src.strike.units * 1000000000 + src.strike.nanos
  /\ g.is_call_option[e] = src.is_call_option
  /\ g.settlement_days[e] = src.settlement_days
  /\ g.batch_names[e] = <<src.metadata.id, src.metadata.instrument_type>>

PerRecordLengths(g) ==
  { Len(g.short_position), Len(g.expiry_date), Len(g.equity), Len(g.contract_amount),
    Len(g.strike), Len(g.is_call_option), Len(g.settlement_days), Len(g.batch_names) }

\* C3: after any prefix of the protos, the eight per-record arrays of every group
\* have one length N, N is the number of consumed protos with the group's
\* fingerprint, and entry e of all eight comes from one and the same proto.
C3_GroupingAlignment ==
  \A h \in DOMAIN prepare_fras :
    LET g == prepare_fras[h]
        N == Len(g.batch_names)
    IN /\ PerRecordLengths(g) = {N}
       /\ N = Cardinality({ p \in 1..FromProtosCount : get_hash(proto_list[p]).h = h })
       /\ \A e \in 1..N :
            /\ SourceOf(g, e) \in 1..FromProtosCount
            /\ get_hash(proto_list[SourceOf(g, e)]).h = h
            /\ EntryIsFrom(g, e, proto_list[SourceOf(g, e)])

\* C3 witness: from_protos is in mid-list, with a proto of the group's own
\* fingerprint still to come, and a group holds two protos of different variants.
C3_Witness ==
  /\ pc = "from_protos"
  /\ idx < Len(proto_list)
  /\ get_hash(proto_list[idx + 1]).h \in DOMAIN prepare_fras
  /\ \E h \in DOMAIN prepare_fras :
       /\ Len(prepare_fras[h].strike) = 2
       /\ prepare_fras[h].strike[1] # prepare_fras[h].strike[2]

\* C4: every group of from_protos and of group_protos is the subsequence of the
\* consumed protos that carry its fingerprint, in input order.
C4_OrderPreserved ==
  /\ \A h \in DOMAIN prepare_fras :
       LET g == prepare_fras[h]
           pos == PositionsOf(h, FromProtosCount)
       IN /\ Len(g.batch_names) = Len(pos)
          /\ \A e \in 1..Len(pos) :
               /\ SourceOf(g, e) = pos[e]
               /\ Len(g.strike) >= e /\ g.strike[e] = decimal_to_double(proto_list[pos[e]].strike)
               /\ Len(g.equity) >= e /\ g.equity[e] = proto_list[pos[e]].equity
  /\ \A h \in DOMAIN grouped_options :
       grouped_options[h] =
         SelectSeq(SubSeq(proto_list, 1, GroupProtosCount), LAMBDA r : get_hash(r).h = h)

\* C4 witness: both functions have returned and a group holds the first and the
\* third proto, the second one lying in another group.
C4_Witness ==
  /\ GroupProtosReturned
  /\ Len(proto_list) = 3
  /\ \E h \in DOMAIN prepare_fras :
       /\ Len(prepare_fras[h].batch_names) = 2
       /\ SourceOf(prepare_fras[h], 1) = 1
       /\ SourceOf(prepare_fras[h], 2) = 3
       /\ Len(grouped_options[h]) = 2

\* Two protos of the request (by position) lie in one group of from_protos.
InOneGroup(p, q) ==
  \E h \in DOMAIN prepare_fras :
    LET g == prepare_fras[h] IN
    /\ \E e \in 1..Len(g.batch_names) : SourceOf(g, e) = p
    /\ \E e \in 1..Len(g.batch_names) : SourceOf(g, e) = q

\* The places (group, entry) at which proto p is held.
PlacesOf(p) ==
  { he \in UNION { { <<h, e>> : e \in 1..Len(prepare_fras[h].batch_names) } : h \in DOMAIN prepare_fras } :
      SourceOf(prepare_fras[he[1]], he[2]) = p }

\* C5: once from_protos has returned, two protos share a group exactly when they
\* agree on bank_holidays and on business_day_convention, whatever their other
\* fields; every proto is held at exactly one place; and there are as many
\* groups as distinct (bank_holidays, business_day_convention) pairs.
C5_PartitionByCalendarAndConvention ==
  FromProtosReturned =>
    /\ \A p, q \in 1..Len(proto_list) :
         InOneGroup(p, q) <=>
           /\ proto_list[p].bank_holidays = proto_list[q].bank_holidays
           /\ proto_list[p].business_day_convention = proto_list[q].business_day_convention
    /\ \A p \in 1..Len(proto_list) : Cardinality(PlacesOf(p)) = 1
    /\ Cardinality(DOMAIN prepare_fras) =
         Cardinality({ <<proto_list[p].bank_holidays, proto_list[p].business_day_convention>>
                         : p \in 1..Len(proto_list) })

\* C5 witness: three protos; the first two agree on calendar and convention and
\* differ in their other fields, the third differs in the convention alone; two
\* groups, of sizes 2 and 1.
C5_Witness ==
  /\ FromProtosReturned
  /\ Len(proto_list) = 3
  /\ proto_list[1].bank_holidays = proto_list[2].bank_holidays
  /\ proto_list[1].business_day_convention = proto_list[2].business_day_convention
  /\ proto_list[1].strike # proto_list[2].strike
  /\ proto_list[3].bank_holidays = proto_list[1].bank_holidays
  /\ proto_list[3].business_day_convention # proto_list[1].business_day_convention
  /\ { Len(prepare_fras[h].batch_names) : h \in DOMAIN prepare_fras } = {1, 2}
  /\ Cardinality(DOMAIN prepare_fras) = 2

\* C7: the currency, calendar and business_day_convention of every group are
\* those of every proto appended to the group.
C7_GroupLevelFieldsShared ==
  \A h \in DOMAIN prepare_fras :
    LET g == prepare_fras[h] IN
    \A e \in 1..Len(g.batch_names) :
      LET src == proto_list[SourceOf(g, e)] IN
      /\ g.currency = currency_from_proto_value(src.currency)
      /\ g.calendar = holiday_from_proto_value(src.bank_holidays)
      /\ g.business_day_convention = convention_from_proto_value(src.business_day_convention)

\* C10: once both have returned, group_protos and from_protos hold the same
\* keys, and under every key the protos listed by group_protos are, in order,
\* the protos behind entries 1, 2, ... of the arrays of from_protos; this under
\* every american_option_config, which from_protos only stores.
C10_GroupingsAgree ==
  GroupProtosReturned =>
    /\ DOMAIN grouped_options = DOMAIN prepare_fras
    /\ \A h \in DOMAIN prepare_fras :
         LET g == prepare_fras[h]
             l == grouped_options[h]
         IN /\ Len(l) = Len(g.batch_names)
            /\ PerRecordLengths(g) = {Len(l)}
            /\ \A e \in 1..Len(l) : EntryIsFrom(g, e, l[e])
            /\ g.american_option_config = american_option_config

\* C10 witness: both have returned under a configuration object, with two
\* groups, one of them of two protos.
C10_Witness ==
  /\ GroupProtosReturned
  /\ american_option_config = "config_a"
  /\ Cardinality(DOMAIN grouped_options) = 2
  /\ \E h \in DOMAIN grouped_options : Len(grouped_options[h]) = 2

\* C9: on an empty proto list from_protos and group_protos return an empty dict,
\* and on an empty name list process_equities returns two empty lists.
C9_EmptyInput ==
  /\ (FromProtosReturned /\ proto_list = <<>>) => DOMAIN prepare_fras = {}
  /\ (GroupProtosReturned /\ proto_list = <<>>) => DOMAIN grouped_options = {}
  /\ (ProcessEquitiesReturned /\ equities = <<>>) => (equity_types = <<>> /\ equity_mask = <<>>)

\* C9 witness: all three have returned on empty input.
C9_Witness ==
  /\ ProcessEquitiesReturned
  /\ proto_list = <<>>
  /\ equities = <<>>
  /\ DOMAIN prepare_fras = {}
  /\ DOMAIN grouped_options = {}
  /\ equity_types = <<>>

HashOf(name) == equity_hash[CHOOSE p \in 1..Len(equities) : equities[p] = name]

SomeSurfaceMissing == \E p \in 1..Len(equity_types) : equity_types[p] \notin market_data.surfaces

\* C6: when the market holds every requested surface, get_vol_surface returns a
\* surface whose expiries, strikes and volatilities have one row per mask entry,
\* row p being the provider's row mask[p] of that field, whose valuation date is
\* the market's and whose day-count convention is the provider's.
C6_GatherByMask ==
  (pc = "done" /\ ~SomeSurfaceMissing) =>
    /\ Len(vol_surface.ret) = 1
    /\ vol_surface.exc = <<>>
    /\ LET s == vol_surface.ret[1] IN
       /\ Len(ordinal(s.expiries)) = Len(surface_mask)
       /\ Len(s.strikes) = Len(surface_mask)
       /\ Len(s.volatilities) = Len(surface_mask)
       /\ \A p \in 1..Len(surface_mask) :
            LET row == NodeData(equity_types[surface_mask[p] + 1]) IN
            /\ ordinal(s.expiries)[p] = row.expiries
            /\ s.strikes[p] = row.strikes
            /\ s.volatilities[p] = row.volatilities
       /\ s.valuation_date = market_data.date
       /\ s.daycount_convention = market_data.daycount_convention

\* C6 witness: a surface gathered with a mask of three entries that repeats one
\* row and does not start with row 0.
C6_Witness ==
  /\ pc = "done"
  /\ Len(vol_surface.ret) = 1
  /\ Len(surface_mask) = 3
  /\ surface_mask[1] # 0
  /\ surface_mask[2] = surface_mask[3]
  /\ Len(equity_types) >= 2
  /\ market_data.date = "2021-06-30"

\* C8: when the market lacks a requested surface, get_vol_surface returns no
\* surface, the exception leaving it is the provider's (naming the first
\* missing equity), and the provider was queried once.
C8_MissingSurfaceFailsBatch ==
  (pc = "done" /\ SomeSurfaceMissing) =>
    /\ vol_surface.ret = <<>>
    /\ vol_surface.exc = <<volatility_surface(market_data, equity_types).exc>>
    /\ vol_surface.exc[1].type = "MissingReferenceData"
    /\ vol_surface.exc[1].key \in SeqRange(equity_types) \ market_data.surfaces
    /\ vol_surface.provider_calls = 1

\* C8 witness: two surfaces were requested, the market holds one of them, and
\* the call ended in the provider's error.
C8_Witness ==
  /\ pc = "done"
  /\ Len(equity_types) = 2
  /\ Cardinality(SeqRange(equity_types) \cap market_data.surfaces) = 1
  /\ Len(vol_surface.exc) = 1
  /\ vol_surface.ret = <<>>

====
